---- MODULE Spec2Model ----
(***************************************************************************)
(* Model of the REMICustom tokenizer (miditok/tokenizations/remi_custom.py)*)
(* and of the PyTorch dataset adapters (miditok/pytorch_data/datasets.py). *)
(*                                                                         *)
(* Token ids are the naturals 0 .. n-1 of a base vocabulary of n tokens.   *)
(* Python lists are TLA+ sequences (Python index i is TLA+ index i+1).     *)
(***************************************************************************)
EXTENDS Integers, Sequences, FiniteSets, TLC

\* Token types that occur in the modelled vocabularies.
TokenTypes == {"Bar", "Chord", "Pitch", "Velocity"}

\* Bounds of the filter runs.
NumIds == 2          \* number of ids of the base vocabulary of the filter runs
MaxLen == 3          \* longest base id sequence handed to the filter

VARIABLES
    \* ---- the tokenizer instance
    config,                  \* the optional attribute groups the config enables
    id_types,                \* id -> type index of the base vocabulary
    remove_from_chord_seq,   \* self.remove_from_chord_seq
    remove_from_instr_seq,   \* self.remove_from_instr_seq
    \* ---- a call of remove_token_types_from_seq
    sequence,                \* the argument `sequence`
    token_types_to_remove,   \* the argument `token_types_to_remove`
    view,                    \* the returned list
    refiltered,              \* the list returned by filtering `view` again
    filter_pc,               \* "ready", "filtered", "refiltered"
    \* ---- the vocabularies of the tokenizer (dicts token -> id)
    vocab,                   \* self.vocab, i.e. self._vocab_base
    instr_vocab,             \* self.instr_vocab
    chord_vocab,             \* self.chord_vocab
    \* ---- a call of REMICustom._score_to_tokens and of func_to_get_labels
    encoded,                 \* the streams returned by super()._score_to_tokens
    tok_sequence,            \* the ids of the TokSequence list handed back
    labels,                  \* the list returned by func_to_get_labels
    raised,                  \* the exception the last call raised, or "none"
    stream_pc,               \* "idle", "tokenized", "failed", "labelled"
    \* ---- token type graphs
    default_graph,           \* the graph object the base family hands out
    instance_kind,           \* per instance: "none", "REMI" or "REMICustom"
    returned_graph,          \* value of the graph the last construction got
    last_built,              \* kind of the instance constructed last, or "none"
    \* ---- saving and loading
    saved_file,              \* <<>> or <<the content of the saved file>>
    tokenizer2,              \* <<>> or <<the tokenizer built from the file>>
    bogus_in,                \* tokenizers a bogus entry was put in afterwards
    \* ---- a dataset (DatasetMIDI or DatasetJSON) and the file it reads
    dataset_kind,            \* "MIDI" or "JSON"
    max_seq_len,             \* self.max_seq_len
    bos_token_id,            \* self.bos_token_id (None or an id)
    eos_token_id,            \* self.eos_token_id (None or an id)
    pre_tokenize,            \* self.pre_tokenize
    one_token_stream,        \* self.tokenizer.one_token_stream
    midi_markers,            \* midi.markers of the file
    midi_tokens,             \* the id lists tokenizer.midi_to_tokens returns for it
    json_ids,                \* the "ids" entry of the JSON file
    tokseq,                  \* the id lists _tokenize_midi returns
    item_ids,                \* "input_ids" of the item __getitem__ returns
    data_raised,             \* the exception the last call raised, or "none"
    data_pc,                 \* "ready", "tokenized", "loaded", "failed", ...
    \* ---- the labels of a DatasetMIDI
    label_func,              \* self.func_to_get_labels: "none" or "second_stream"
    samples,                 \* self.samples, the id lists appended so far
    sample_labels,           \* self.labels, the labels appended so far
    item_labels,             \* "labels" of the item __getitem__ returns
    \* ---- the disabled indices of a view
    disabled_indices,        \* what the last get_disabled_*_indices returned
    disabled_pc              \* the view it was called for: "none", "instr", "chord"

tokenizerVars == <<config, id_types, remove_from_chord_seq, remove_from_instr_seq>>
filterVars == <<sequence, token_types_to_remove, view, refiltered, filter_pc>>
vocabVars == <<vocab, instr_vocab, chord_vocab>>
streamVars == <<encoded, tok_sequence, labels, raised, stream_pc>>
graphVars == <<default_graph, instance_kind, returned_graph, last_built>>
saveVars == <<saved_file, tokenizer2, bogus_in>>
datasetVars == <<dataset_kind, max_seq_len, bos_token_id, eos_token_id,
                 pre_tokenize, one_token_stream>>
fileVars == <<midi_markers, midi_tokens, json_ids>>
dataCallVars == <<tokseq, item_ids, data_raised, data_pc>>
labelVars == <<label_func, samples, sample_labels, item_labels>>
dataVars == <<datasetVars, fileVars, dataCallVars, labelVars>>
disabledVars == <<disabled_indices, disabled_pc>>
vars == <<tokenizerVars, filterVars, vocabVars, streamVars, graphVars, saveVars,
          dataVars, disabledVars>>

(***************************************************************************)
(* Helpers on sequences.                                                   *)
(***************************************************************************)
RECURSIVE SeqsUpTo(_, _)
SeqsUpTo(S, n) ==
    IF n = 0 THEN {<<>>}
    ELSE LET shorter == SeqsUpTo(S, n - 1)
         IN  shorter \cup {Append(s, x) : s \in {t \in shorter : Len(t) = n - 1}, x \in S}

SeqsOfLen(S, n) == {s \in SeqsUpTo(S, n) : Len(s) = n}

\* Python's lst[a:] with a >= 0.
SliceFrom(lst, a) == SubSeq(lst, a + 1, Len(lst))

(***************************************************************************)
(* The vocabulary's type index.                                            *)
(***************************************************************************)
\* tokenizer.token_id_type(id): the type of a base id, read from the index
\* built with the base vocabulary.
token_id_type(types, id) == types[id + 1]

Ids(types) == 0 .. Len(types) - 1

(***************************************************************************)
(* remove_consecutive_duplicates and remove_token_types_from_seq.          *)
(***************************************************************************)
\* The for loop of remove_consecutive_duplicates: `result` is the list built
\* so far, `rest` the items still to visit.
RECURSIVE DedupLoop(_, _)
DedupLoop(result, rest) ==
    IF rest = <<>> THEN result
    ELSE LET item == Head(rest)
         IN  DedupLoop(IF item # result[Len(result)]
                          THEN Append(result, item)
                          ELSE result,
                       Tail(rest))

\* A variant that compares each item with the first kept item.
RECURSIVE DedupLoopFirst(_, _)
DedupLoopFirst(result, rest) ==
    IF rest = <<>> THEN result
    ELSE LET item == Head(rest)
         IN  DedupLoopFirst(IF item # result[1]
                               THEN Append(result, item)
                               ELSE result,
                            Tail(rest))

remove_consecutive_duplicates_first(lst) ==
    LET result == IF lst # <<>> THEN <<lst[1]>> ELSE <<>>
    IN  DedupLoopFirst(result, SliceFrom(lst, 1))

remove_consecutive_duplicates(lst) ==
    LET result == IF lst # <<>> THEN <<lst[1]>> ELSE <<>>
    IN  DedupLoop(result, SliceFrom(lst, 1))

\* A variant of the comprehension that keeps the excluded types.
KeepTypesInverted(types, seq, to_remove) ==
    SelectSeq(seq, LAMBDA t : token_id_type(types, t) \in to_remove)

\* The list comprehension of remove_token_types_from_seq.
KeepTypes(types, seq, to_remove) ==
    SelectSeq(seq, LAMBDA t : token_id_type(types, t) \notin to_remove)

\* A variant that collapses duplicates before the types are removed.
remove_token_types_dedup_first(types, seq, to_remove) ==
    KeepTypes(types, remove_consecutive_duplicates(seq), to_remove)

remove_token_types_from_seq(types, seq, to_remove) ==
    LET seq2 == KeepTypes(types, seq, to_remove)
    IN  remove_consecutive_duplicates(seq2)

(***************************************************************************)
(* Vocabularies.  A Python dict is the sequence of its items in insertion  *)
(* order, each item a record [k |-> key, v |-> value].                      *)
(***************************************************************************)
DictKeys(d) == {d[p].k : p \in DOMAIN d}
DictValues(d) == {d[p].v : p \in DOMAIN d}

\* d[key] = val: the value of an existing key is replaced where it stands, a
\* new key is added at the end.
DictSet(d, key, val) ==
    IF key \in DictKeys(d)
    THEN [p \in DOMAIN d |-> IF d[p].k = key THEN [k |-> key, v |-> val] ELSE d[p]]
    ELSE Append(d, [k |-> key, v |-> val])

\* The token "<Type>_<Value>" of a base id; the value is the base id itself.
Token(types, id) == <<token_id_type(types, id), id>>

\* The base vocabulary built at construction: ids are given in creation
\* order, contiguous from 0.
BaseVocab(types) ==
    [p \in 1 .. Len(types) |-> [k |-> Token(types, p - 1), v |-> p - 1]]

\* The derived vocabularies before separate_chord_vocab has run.
EmptyVocab == <<>>

\* The state of the vocabularies before any call.
VocabBuilt ==
    /\ vocab = BaseVocab(id_types)
    /\ instr_vocab = EmptyVocab
    /\ chord_vocab = EmptyVocab

(***************************************************************************)
(* Token type graphs: a graph maps each type to the set of types that may  *)
(* follow it.                                                              *)
(***************************************************************************)
NumInstances == 3    \* tokenizer instances constructed in the graph runs

Instances == 1 .. NumInstances

GraphTypes ==
    {"Bar", "Position", "Chord", "Pitch", "Velocity", "Duration", "Rest", "Tempo"}

\* The optional attribute groups of a config that shape the graph.
OptionalGroups == {"rests", "tempos"}

\* The default graph of the base family for a config: the canonical emission
\* order Bar -> Position -> Pitch -> Velocity -> Duration with chords, and the
\* enabled optional groups.
DefaultGraph(cfg) ==
    [t \in GraphTypes |->
        CASE t = "Bar" -> {"Position", "Bar"}
          [] t = "Position" -> {"Pitch", "Chord"}
                                 \cup (IF "tempos" \in cfg THEN {"Tempo"} ELSE {})
          [] t = "Chord" -> {"Pitch"}
          [] t = "Pitch" -> {"Velocity"}
          [] t = "Velocity" -> {"Duration"}
          [] t = "Duration" -> {"Pitch", "Position", "Bar"}
                                 \cup (IF "rests" \in cfg THEN {"Rest"} ELSE {})
          [] t = "Rest" -> IF "rests" \in cfg THEN {"Rest", "Position", "Bar"} ELSE {}
          [] t = "Tempo" -> IF "tempos" \in cfg THEN {"Pitch", "Chord"} ELSE {}]

\* dic["Chord"].update(["Duration"]): the set stored under "Chord" gains
\* "Duration"; the object is changed where it stands.
UpdateChord(dic) == [dic EXCEPT !["Chord"] = @ \cup {"Duration"}]

\* No tokenizer has built a graph.
GraphsIdle ==
    /\ default_graph = DefaultGraph({})
    /\ instance_kind = [i \in Instances |-> "none"]
    /\ returned_graph = DefaultGraph({})
    /\ last_built = "none"

\* Nothing has been saved or loaded.
SaveIdle ==
    /\ saved_file = <<>>
    /\ tokenizer2 = <<>>
    /\ bogus_in = {}

\* Python's None where an id may stand.
None == -1

\* Python's None, or a list of ids, as the value a method returns.
NoneValue == [none |-> TRUE, ids |-> <<>>]

ListValue(ids) == [none |-> FALSE, ids |-> ids]

\* No get_disabled_*_indices call has been made.
DisabledIdle ==
    /\ disabled_indices = NoneValue
    /\ disabled_pc = "none"

\* No label function is given and nothing has been pre-tokenized.
LabelsIdle ==
    /\ label_func = "none"
    /\ samples = <<>>
    /\ sample_labels = <<>>
    /\ item_labels = <<>>

\* No dataset is modelled.
DataIdle ==
    /\ dataset_kind = "JSON"
    /\ max_seq_len = 0
    /\ bos_token_id = None
    /\ eos_token_id = None
    /\ pre_tokenize = FALSE
    /\ one_token_stream = TRUE
    /\ midi_markers = <<>>
    /\ midi_tokens = <<>>
    /\ json_ids = <<>>
    /\ tokseq = <<>>
    /\ item_ids = <<>>
    /\ data_raised = "none"
    /\ data_pc = "ready"
    /\ LabelsIdle

\* No stream has been produced yet.
StreamsIdle ==
    /\ encoded = <<>>
    /\ tok_sequence = <<>>
    /\ labels = <<>>
    /\ raised = "none"
    /\ stream_pc = "idle"

\* No call of remove_token_types_from_seq is modelled.
FilterIdle ==
    /\ sequence = <<>>
    /\ token_types_to_remove = {}
    /\ view = <<>>
    /\ refiltered = <<>>
    /\ filter_pc = "ready"

(***************************************************************************)
(* Specification of the filter: the inputs of a call are drawn in Init,    *)
(* the actions apply the function to them and to its own result.           *)
(***************************************************************************)
InitFilter ==
    /\ config = {}
    /\ id_types \in SeqsOfLen(TokenTypes, NumIds)
    /\ remove_from_chord_seq = {"Pitch", "Velocity"}
    /\ remove_from_instr_seq = {"Chord"}
    /\ sequence \in SeqsUpTo(Ids(id_types), MaxLen)
    /\ token_types_to_remove \in SUBSET TokenTypes
    /\ view = <<>>
    /\ refiltered = <<>>
    /\ filter_pc = "ready"
    /\ VocabBuilt
    /\ DisabledIdle
    /\ StreamsIdle
    /\ GraphsIdle
    /\ SaveIdle
    /\ DataIdle

\* view = remove_token_types_from_seq(tokenizer, sequence, token_types_to_remove)
Filter ==
    /\ filter_pc = "ready"
    /\ view' = remove_token_types_from_seq(id_types, sequence, token_types_to_remove)
    /\ filter_pc' = "filtered"
    /\ UNCHANGED <<disabledVars, tokenizerVars, sequence, token_types_to_remove, refiltered>>
    /\ UNCHANGED <<disabledVars, vocabVars, streamVars, graphVars, saveVars, dataVars>>

\* refiltered = remove_token_types_from_seq(tokenizer, view, token_types_to_remove)
FilterAgain ==
    /\ filter_pc = "filtered"
    /\ refiltered' = remove_token_types_from_seq(id_types, view, token_types_to_remove)
    /\ filter_pc' = "refiltered"
    /\ UNCHANGED <<disabledVars, tokenizerVars, sequence, token_types_to_remove, view>>
    /\ UNCHANGED <<disabledVars, vocabVars, streamVars, graphVars, saveVars, dataVars>>

NextFilter == Filter \/ FilterAgain

Spec == InitFilter /\ [][NextFilter]_vars

(***************************************************************************)
(* Properties of the filter.                                               *)
(***************************************************************************)
NoAdjacentEqual(lst) == \A i \in 1 .. Len(lst) - 1 : lst[i] # lst[i + 1]

\* C1: the list returned by remove_token_types_from_seq has no two adjacent
\* equal ids, for every base id sequence and every exclusion set.
C1_NoAdjacentEqualIds ==
    /\ filter_pc # "ready" => NoAdjacentEqual(view)
    /\ filter_pc = "refiltered" => NoAdjacentEqual(refiltered)

\* The removal of a type brought two equal ids together and one was dropped.
C1_Witness ==
    /\ filter_pc = "filtered"
    /\ ~NoAdjacentEqual(KeepTypes(id_types, sequence, token_types_to_remove))
    /\ NoAdjacentEqual(sequence)
    /\ view # <<>>

\* The single-pass reference: walk the base sequence in order, keep an id iff
\* its type is not excluded, drop a kept id that equals the last id kept.
RECURSIVE SinglePass(_, _, _, _)
SinglePass(types, kept, rest, to_remove) ==
    IF rest = <<>> THEN kept
    ELSE LET t == Head(rest)
             excluded == types[t + 1] \in to_remove
             repeats == kept # <<>> /\ kept[Len(kept)] = t
         IN  SinglePass(types,
                        IF excluded \/ repeats THEN kept ELSE Append(kept, t),
                        Tail(rest), to_remove)

\* C2: remove_token_types_from_seq returns exactly the result of the
\* single-pass reference, and the empty list on the empty sequence.
C2_EqualsSinglePass ==
    filter_pc # "ready" =>
        /\ view = SinglePass(id_types, <<>>, sequence, token_types_to_remove)
        /\ sequence = <<>> => view = <<>>

\* A call that both removes an excluded id and collapses a repeated one.
C2_Witness ==
    /\ filter_pc = "filtered"
    /\ Len(sequence) = MaxLen
    /\ Len(KeepTypes(id_types, sequence, token_types_to_remove)) = Len(sequence) - 1
    /\ Len(view) = Len(sequence) - 2

\* C3: filtering an already filtered list with the same exclusion set
\* returns it unchanged.
C3_Idempotent == filter_pc = "refiltered" => refiltered = view

\* The second filtering ran on a list the first one had shortened.
C3_Witness ==
    /\ filter_pc = "refiltered"
    /\ view # <<>>
    /\ Len(view) < Len(sequence)
    /\ ~NoAdjacentEqual(KeepTypes(id_types, sequence, token_types_to_remove))

(***************************************************************************)
(* REMICustom.separate_chord_vocab.                                        *)
(***************************************************************************)
MaxVocab == 3        \* largest base vocabulary of the vocabulary runs

\* A variant of the loop that numbers both derived vocabularies with one
\* counter.
RECURSIVE SeparateLoopSharedCounter(_, _, _, _, _, _, _, _)
SeparateLoopSharedCounter(types, items, from_instr, from_chord, instr, chord, i, j) ==
    IF items = <<>> THEN [instr |-> instr, chord |-> chord]
    ELSE LET k == Head(items).k
             v == Head(items).v
             in_instr == token_id_type(types, v) \notin from_instr
             in_chord == token_id_type(types, v) \notin from_chord
         IN  SeparateLoopSharedCounter(types, Tail(items), from_instr, from_chord,
                          IF in_instr THEN DictSet(instr, k, i) ELSE instr,
                          IF in_chord THEN DictSet(chord, k, i) ELSE chord,
                          IF in_instr \/ in_chord THEN i + 1 ELSE i,
                          j)

\* The for loop of separate_chord_vocab over the items (k, v) of self.vocab;
\* instr and chord are the two derived dicts, i and j the two counters.
RECURSIVE SeparateLoop(_, _, _, _, _, _, _, _)
SeparateLoop(types, items, from_instr, from_chord, instr, chord, i, j) ==
    IF items = <<>> THEN [instr |-> instr, chord |-> chord]
    ELSE LET k == Head(items).k
             v == Head(items).v
             in_instr == token_id_type(types, v) \notin from_instr
             in_chord == token_id_type(types, v) \notin from_chord
         IN  SeparateLoop(types, Tail(items), from_instr, from_chord,
                          IF in_instr THEN DictSet(instr, k, i) ELSE instr,
                          IF in_chord THEN DictSet(chord, k, j) ELSE chord,
                          IF in_instr THEN i + 1 ELSE i,
                          IF in_chord THEN j + 1 ELSE j)

InitVocab ==
    /\ config = {}
    /\ id_types \in SeqsUpTo(TokenTypes, MaxVocab)
    /\ remove_from_chord_seq \in SUBSET TokenTypes
    /\ remove_from_instr_seq \in SUBSET TokenTypes
    /\ VocabBuilt
    /\ DisabledIdle
    /\ FilterIdle
    /\ StreamsIdle
    /\ GraphsIdle
    /\ SaveIdle
    /\ DataIdle

\* self.separate_chord_vocab().  The loop visits each item of self.vocab once
\* and reads its value before any write to that key, so it runs over the items
\* as they are on entry, also when self.vocab is self.instr_vocab.
SeparateChordVocab ==
    LET r == SeparateLoop(id_types, vocab, remove_from_instr_seq,
                          remove_from_chord_seq, instr_vocab, chord_vocab, 0, 0)
    IN  /\ instr_vocab' = r.instr
        /\ chord_vocab' = r.chord
        /\ vocab' = r.instr
        /\ UNCHANGED <<disabledVars, tokenizerVars, filterVars, streamVars, graphVars, saveVars, dataVars>>

NextVocab == SeparateChordVocab

SpecVocab == InitVocab /\ [][NextVocab]_vars

\* d holds exactly the base entries whose type is outside `excluded`, numbered
\* one-to-one onto 0 .. k-1 in increasing base-id order.
IsReindexedView(d, types, excluded) ==
    LET kept == {b \in Ids(types) : token_id_type(types, b) \notin excluded}
    IN  /\ DictKeys(d) = {Token(types, b) : b \in kept}
        /\ Len(d) = Cardinality(kept)
        /\ DictValues(d) = 0 .. Cardinality(kept) - 1
        /\ \A p, q \in DOMAIN d : d[p].k[2] < d[q].k[2] => d[p].v < d[q].v

NumStreamIds == 2    \* number of ids of the base vocabulary of the stream runs
MaxStreams == 2      \* most streams the base encoder returns
MaxStreamLen == 1    \* longest stream the base encoder returns

\* The exclusion lists a tokenizer is constructed with in the stream runs: the
\* defaults of REMICustom.__init__, each usable for either view.
ExclusionLists == {{"Pitch", "Velocity"}, {"Chord"}}

\* What super()._score_to_tokens may return for some score: a list of up to
\* MaxStreams streams of ids of the vocabulary.
EncodedScores(types) ==
    SeqsUpTo(SeqsUpTo(Ids(types), MaxStreamLen), MaxStreams)

\* A variant that returns the first stream.
func_to_get_labels_first(tseq) ==
    IF Len(tseq) < 1
    THEN [raised |-> "IndexError", ids |-> <<>>]
    ELSE [raised |-> "none", ids |-> tseq[1]]

\* func_to_get_labels(score, tseq, file_path): tseq[1].ids, an IndexError when
\* tseq has fewer than two members.
func_to_get_labels(tseq) ==
    IF Len(tseq) < 2
    THEN [raised |-> "IndexError", ids |-> <<>>]
    ELSE [raised |-> "none", ids |-> tseq[2]]

\* The body of _score_to_tokens after the call of super(): both id lists are
\* read first (an IndexError when one is missing), then each is replaced by its
\* filtered view; further streams are left as they are.
score_to_tokens(types, streams, from_instr, from_chord) ==
    IF Len(streams) < 2
    THEN [raised |-> "IndexError", streams |-> streams]
    ELSE [raised |-> "none",
          streams |-> [p \in DOMAIN streams |->
              IF p = 1 THEN remove_token_types_from_seq(types, streams[1], from_instr)
              ELSE IF p = 2 THEN remove_token_types_from_seq(types, streams[2], from_chord)
              ELSE streams[p]]]

\* The tokenizer and the base encoding of the score are drawn here; the
\* actions apply the two methods to them.
InitStreams ==
    /\ config = {}
    /\ id_types \in SeqsOfLen(TokenTypes, NumStreamIds)
    /\ remove_from_chord_seq \in ExclusionLists
    /\ remove_from_instr_seq \in ExclusionLists
    /\ VocabBuilt
    /\ DisabledIdle
    /\ FilterIdle
    /\ encoded \in EncodedScores(id_types)
    /\ tok_sequence = <<>>
    /\ labels = <<>>
    /\ raised = "none"
    /\ stream_pc = "idle"
    /\ GraphsIdle
    /\ SaveIdle
    /\ DataIdle

\* tok_sequence = self._score_to_tokens(score), for the score whose base
\* encoding is `encoded`.
ScoreToTokens ==
    /\ stream_pc = "idle"
    /\ LET r == score_to_tokens(id_types, encoded, remove_from_instr_seq,
                                remove_from_chord_seq)
       IN  /\ raised' = r.raised
           /\ tok_sequence' = IF r.raised = "none" THEN r.streams ELSE <<>>
           /\ stream_pc' = IF r.raised = "none" THEN "tokenized" ELSE "failed"
    /\ UNCHANGED <<encoded, labels>>
    /\ UNCHANGED <<disabledVars, tokenizerVars, filterVars, vocabVars, graphVars, saveVars, dataVars>>

\* labels = self.func_to_get_labels(score, tok_sequence, file_path) on the
\* streams the last call produced.
FuncToGetLabels ==
    /\ stream_pc = "tokenized"
    /\ LET r == func_to_get_labels(tok_sequence)
       IN  /\ raised' = r.raised
           /\ labels' = r.ids
           /\ stream_pc' = IF r.raised = "none" THEN "labelled" ELSE "failed"
    /\ UNCHANGED <<encoded, tok_sequence>>
    /\ UNCHANGED <<disabledVars, tokenizerVars, filterVars, vocabVars, graphVars, saveVars, dataVars>>

NextStreams == ScoreToTokens \/ FuncToGetLabels

SpecStreams == InitStreams /\ [][NextStreams]_vars

\* C5: when the base encoder returns fewer than two streams, _score_to_tokens
\* raises nothing and hands back the streams it was given, the first one (if
\* there is one) filtered for the instrument view.
C5_MissingChordViewSkipped ==
    (stream_pc # "idle" /\ Len(encoded) < 2) =>
        /\ raised = "none"
        /\ Len(tok_sequence) = Len(encoded)
        /\ Len(encoded) = 1 =>
               tok_sequence[1] = remove_token_types_from_seq(
                                     id_types, encoded[1], remove_from_instr_seq)

\* C7: func_to_get_labels returns the id list of the second stream of the
\* pair as it stands, and the call changes neither stream.
C7_LabelsAreSecondStream ==
    [][stream_pc' = "labelled" =>
        /\ Len(tok_sequence) >= 2
        /\ labels' = tok_sequence[2]
        /\ tok_sequence' = tok_sequence]_vars

\* Labels were read from a pair whose two streams differ.
C7_Witness ==
    /\ stream_pc = "labelled"
    /\ Len(tok_sequence) = 2
    /\ tok_sequence[1] # tok_sequence[2]
    /\ Len(tok_sequence[2]) = MaxStreamLen
    /\ labels = tok_sequence[2]

(***************************************************************************)
(* Construction of token type graphs.  The base family hands out its       *)
(* default graph object; REMICustom._create_token_types_graph amends the   *)
(* object it receives.                                                     *)
(***************************************************************************)
InitGraph ==
    /\ config \in SUBSET OptionalGroups
    /\ id_types = <<>>
    /\ remove_from_chord_seq = {"Pitch", "Velocity"}
    /\ remove_from_instr_seq = {"Chord"}
    /\ VocabBuilt
    /\ DisabledIdle
    /\ FilterIdle
    /\ StreamsIdle
    /\ default_graph = DefaultGraph(config)
    /\ instance_kind = [i \in Instances |-> "none"]
    /\ returned_graph = DefaultGraph(config)
    /\ last_built = "none"
    /\ SaveIdle
    /\ DataIdle

\* Instance i is constructed as a REMI tokenizer: its graph is the one
\* REMI._create_token_types_graph returns.
ConstructREMI(i) ==
    /\ instance_kind[i] = "none"
    /\ instance_kind' = [instance_kind EXCEPT ![i] = "REMI"]
    /\ returned_graph' = default_graph
    /\ last_built' = "REMI"
    /\ UNCHANGED default_graph
    /\ UNCHANGED <<disabledVars, tokenizerVars, filterVars, vocabVars, streamVars, saveVars, dataVars>>

\* Instance i is constructed as a REMICustom tokenizer: dic is the object
\* super()._create_token_types_graph() returns, dic["Chord"] is updated and dic
\* is returned.
ConstructREMICustom(i) ==
    /\ instance_kind[i] = "none"
    /\ instance_kind' = [instance_kind EXCEPT ![i] = "REMICustom"]
    /\ default_graph' = UpdateChord(default_graph)
    /\ returned_graph' = default_graph'
    /\ last_built' = "REMICustom"
    /\ UNCHANGED <<disabledVars, tokenizerVars, filterVars, vocabVars, streamVars, saveVars, dataVars>>

NextGraph ==
    \/ \E i \in Instances : ConstructREMI(i)
    \/ \E i \in Instances : ConstructREMICustom(i)

SpecGraph == InitGraph /\ [][NextGraph]_vars

\* C6: the graph REMICustom builds is the base family's graph plus the edge
\* Chord -> Duration, and after any constructions the base family's default
\* graph has no edge it did not have originally.
C6_DefaultGraphNotMutated ==
    /\ last_built = "REMICustom" =>
           returned_graph = UpdateChord(DefaultGraph(config))
    /\ \A t \in GraphTypes : default_graph[t] \subseteq DefaultGraph(config)[t]

(***************************************************************************)
(* Saving a REMICustom tokenizer and constructing one from the saved file, *)
(* as test_saving_loading_tokenizer does.                                  *)
(***************************************************************************)
MaxSavedVocab == 1   \* largest base vocabulary of the save/load runs

\* The defaults of REMICustom.__init__.
DefaultRemoveFromChordSeq == {"Pitch", "Velocity"}
DefaultRemoveFromInstrSeq == {"Chord"}

\* tokenizer.vocab["PAD_None"] = 8 of the test.
BogusToken == <<"PAD", "None">>
BogusId == 8

\* What save() writes for a tokenizer: its config and vocabulary and, for a
\* derived-stream variant, the derived vocabularies and the exclusion lists.
FileOf(cfg, voc, instr, chord, from_chord, from_instr) ==
    [config |-> cfg, vocab |-> voc, instr_vocab |-> instr, chord_vocab |-> chord,
     remove_from_chord_seq |-> from_chord, remove_from_instr_seq |-> from_instr]

\* What the base constructor rebuilds from a file.
LoadedBase(file) ==
    [config |-> file.config, vocab |-> file.vocab,
     instr_vocab |-> file.instr_vocab, chord_vocab |-> file.chord_vocab]

\* REMICustom.__init__(params=file, remove_token_types_from_chord_seq=from_chord,
\* remove_token_types_from_instr_seq=from_instr): the base constructor runs, then
\* the two exclusion lists are set from the arguments.
REMICustomInit(file, from_chord, from_instr) ==
    LET base == LoadedBase(file)
    IN  [config |-> base.config, vocab |-> base.vocab,
         instr_vocab |-> base.instr_vocab, chord_vocab |-> base.chord_vocab,
         remove_from_chord_seq |-> from_chord,
         remove_from_instr_seq |-> from_instr]

\* The first tokenizer as a record.
Tokenizer1 ==
    [config |-> config, vocab |-> vocab,
     instr_vocab |-> instr_vocab, chord_vocab |-> chord_vocab,
     remove_from_chord_seq |-> remove_from_chord_seq,
     remove_from_instr_seq |-> remove_from_instr_seq]

\* The first tokenizer is built from a config and two exclusion lists.
InitSave ==
    /\ config \in SUBSET OptionalGroups
    /\ id_types \in SeqsUpTo(TokenTypes, MaxSavedVocab)
    /\ remove_from_chord_seq \in SUBSET TokenTypes
    /\ remove_from_instr_seq \in SUBSET TokenTypes
    /\ VocabBuilt
    /\ DisabledIdle
    /\ FilterIdle
    /\ StreamsIdle
    /\ GraphsIdle
    /\ SaveIdle
    /\ DataIdle

\* tokenizer.save(path)
Save ==
    /\ bogus_in = {}
    /\ saved_file' = <<FileOf(config, vocab, instr_vocab, chord_vocab,
                              remove_from_chord_seq, remove_from_instr_seq)>>
    /\ UNCHANGED <<tokenizer2, bogus_in>>
    /\ UNCHANGED <<disabledVars, tokenizerVars, filterVars, vocabVars, streamVars, graphVars, dataVars>>

\* tokenizer2 = REMICustom(params=path)
Load ==
    /\ saved_file # <<>>
    /\ bogus_in = {}
    /\ tokenizer2' = <<REMICustomInit(saved_file[1], DefaultRemoveFromChordSeq,
                                      DefaultRemoveFromInstrSeq)>>
    /\ UNCHANGED <<saved_file, bogus_in>>
    /\ UNCHANGED <<disabledVars, tokenizerVars, filterVars, vocabVars, streamVars, graphVars, dataVars>>

\* tokenizer.vocab["PAD_None"] = 8 on the first tokenizer, after the load.
InjectBogusInFirst ==
    /\ tokenizer2 # <<>>
    /\ bogus_in = {}
    /\ vocab' = DictSet(vocab, BogusToken, BogusId)
    /\ bogus_in' = {1}
    /\ UNCHANGED <<instr_vocab, chord_vocab, saved_file, tokenizer2>>
    /\ UNCHANGED <<disabledVars, tokenizerVars, filterVars, streamVars, graphVars, dataVars>>

\* tokenizer2.vocab["PAD_None"] = 8 on the loaded tokenizer.
InjectBogusInSecond ==
    /\ tokenizer2 # <<>>
    /\ bogus_in = {}
    /\ tokenizer2' = <<[tokenizer2[1] EXCEPT
                          !.vocab = DictSet(@, BogusToken, BogusId)]>>
    /\ bogus_in' = {2}
    /\ UNCHANGED saved_file
    /\ UNCHANGED <<disabledVars, tokenizerVars, filterVars, vocabVars, streamVars, graphVars, dataVars>>

NextSave == Save \/ Load \/ InjectBogusInFirst \/ InjectBogusInSecond

SpecSave == InitSave /\ [][NextSave]_vars

\* C8: a REMICustom tokenizer constructed from the file another one saved
\* equals it in config, base vocabulary, derived vocabularies and exclusion
\* lists, whatever exclusion lists the first was built with; once a vocabulary
\* entry of either is changed they differ.
C8_SaveLoadRoundTrip ==
    tokenizer2 # <<>> =>
        /\ bogus_in = {} => tokenizer2[1] = Tokenizer1
        /\ bogus_in # {} => tokenizer2[1] # Tokenizer1

(***************************************************************************)
(* The datasets: _DatasetABC._preprocess_token_ids,                        *)
(* DatasetMIDI._tokenize_midi and DatasetJSON.__getitem__.                 *)
(***************************************************************************)
MaxSeqLen == 2       \* largest max_seq_len of a dataset
MaxTracks == 2       \* most streams midi_to_tokens returns for a file
MaxMarkers == 1      \* most markers of a file
MaxChunk == 1        \* largest chunk number in a chunk marker
FirstTokenId == 10   \* ids of the tokens of a file start here

\* The BOS and EOS settings of a dataset: None, the id 0, or another id.
BosChoices == {None, 0, 1}
EosChoices == {None, 0, 2}

\* The id lists of the files: the p-th token of a list has id FirstTokenId+p-1.
TokenLists == {[p \in 1 .. n |-> FirstTokenId + p - 1] : n \in 0 .. MaxSeqLen}

\* The texts of the markers: the chunk markers split_midis_for_training writes
\* ("miditok: chunk i/n") and some other text.
MarkerTexts ==
    {<<"other">>} \cup
    {<<"miditok: chunk", c[1], c[2]>> :
        c \in {d \in (0 .. MaxChunk) \X (0 .. MaxChunk) : d[1] <= d[2]}}

Markers == [time : {0, 1}, text : MarkerTexts]

\* The markers of a loaded file are ordered by time.
MarkerLists ==
    {ms \in SeqsUpTo(Markers, MaxMarkers) :
        \A p \in 1 .. Len(ms) - 1 : ms[p].time <= ms[p + 1].time}

\* Python's lst[:m]: the first m items, or all but the last -m when m < 0.
SliceTo(lst, m) ==
    IF m >= 0
    THEN SubSeq(lst, 1, IF m < Len(lst) THEN m ELSE Len(lst))
    ELSE SubSeq(lst, 1, IF Len(lst) + m > 0 THEN Len(lst) + m ELSE 0)

\* sum([1 for t in [bos_token_id, eos_token_id] if t is not None])
NumSpecial(bos, eos) ==
    (IF bos # None THEN 1 ELSE 0) + (IF eos # None THEN 1 ELSE 0)

\* `if token_id:` is false for None and for the id 0.
Truthy(token_id) == token_id # None /\ token_id # 0

\* _preprocess_token_ids on a flat list of ids.  token_ids[0] is read before
\* each insertion, an IndexError on the empty list.
preprocess_token_ids(token_ids, max_len, bos, eos, enforce) ==
    LET m == max_len - NumSpecial(bos, eos)
        over == Len(token_ids) > m
        ids1 == IF over THEN SliceTo(token_ids, m) ELSE token_ids
        eos1 == IF over /\ ~enforce THEN None ELSE eos
        ids2 == IF Truthy(bos) THEN <<bos>> \o ids1 ELSE ids1
        ids3 == IF Truthy(eos1) THEN Append(ids2, eos1) ELSE ids2
    IN  IF \/ Truthy(bos) /\ ids1 = <<>>
           \/ Truthy(eos1) /\ ids2 = <<>>
        THEN [raised |-> "IndexError", ids |-> <<>>]
        ELSE [raised |-> "none", ids |-> ids3]

\* A variant of the marker loop with the two comparisons exchanged.
RECURSIVE MarkerLoopSwapped(_, _, _)
MarkerLoopSwapped(markers, add_bos, add_eos) ==
    IF markers = <<>> THEN [add_bos |-> add_bos, add_eos |-> add_eos]
    ELSE LET marker == Head(markers)
         IN  IF marker.time # 0
             THEN [add_bos |-> add_bos, add_eos |-> add_eos]
             ELSE IF marker.text[1] = "miditok: chunk"
             THEN MarkerLoopSwapped(Tail(markers), marker.text[2] = marker.text[3],
                                    marker.text[2] = 0)
             ELSE MarkerLoopSwapped(Tail(markers), add_bos, add_eos)

\* The loop of _tokenize_midi over midi.markers: it stops at the first marker
\* that is not at tick 0; a marker whose text starts with "miditok: chunk" sets
\* both flags from its chunk id and last chunk id.
RECURSIVE MarkerLoop(_, _, _)
MarkerLoop(markers, add_bos, add_eos) ==
    IF markers = <<>> THEN [add_bos |-> add_bos, add_eos |-> add_eos]
    ELSE LET marker == Head(markers)
         IN  IF marker.time # 0
             THEN [add_bos |-> add_bos, add_eos |-> add_eos]
             ELSE IF marker.text[1] = "miditok: chunk"
             THEN MarkerLoop(Tail(markers), marker.text[2] = 0,
                             marker.text[2] = marker.text[3])
             ELSE MarkerLoop(Tail(markers), add_bos, add_eos)

\* DatasetMIDI._tokenize_midi for a file with the given markers, whose
\* tokenization is `tokens` (one id list per TokSequence).
tokenize_midi(markers, tokens, max_len, bos, eos, pre, one_stream) ==
    LET keeps_first == ~pre /\ ~one_stream
        seqs == IF keeps_first /\ tokens # <<>> THEN <<tokens[1]>> ELSE tokens
        flags == MarkerLoop(markers, TRUE, TRUE)
        done == [p \in DOMAIN seqs |->
                    preprocess_token_ids(seqs[p], max_len,
                                         IF flags.add_bos THEN bos ELSE None,
                                         IF flags.add_eos THEN eos ELSE None,
                                         FALSE)]
    IN  IF \/ keeps_first /\ tokens = <<>>
           \/ \E p \in DOMAIN done : done[p].raised # "none"
        THEN [raised |-> "IndexError", tokseq |-> <<>>]
        ELSE [raised |-> "none", tokseq |-> [p \in DOMAIN done |-> done[p].ids]]

\* self._effective_max_seq_len of DatasetJSON.__init__
EffectiveMaxSeqLen(max_len, bos, eos) == max_len - NumSpecial(bos, eos)

\* DatasetJSON.__getitem__ for a file whose "ids" entry is `ids`.
json_getitem(ids, max_len, bos, eos) ==
    preprocess_token_ids(ids, EffectiveMaxSeqLen(max_len, bos, eos), bos, eos, FALSE)

\* What tokenizer.midi_to_tokens may return: one TokSequence for a
\* one-stream tokenizer, else a list of TokSequence, one per track.
MidiTokens(one_stream) ==
    IF one_stream THEN SeqsOfLen(TokenLists, 1) ELSE SeqsUpTo(TokenLists, MaxTracks)

\* A dataset and the file it is indexed with are drawn here.
InitData ==
    /\ config = {}
    /\ id_types = <<>>
    /\ remove_from_chord_seq = DefaultRemoveFromChordSeq
    /\ remove_from_instr_seq = DefaultRemoveFromInstrSeq
    /\ VocabBuilt
    /\ DisabledIdle
    /\ FilterIdle
    /\ StreamsIdle
    /\ GraphsIdle
    /\ SaveIdle
    /\ dataset_kind \in {"MIDI", "JSON"}
    /\ max_seq_len \in 0 .. MaxSeqLen
    /\ bos_token_id \in BosChoices
    /\ eos_token_id \in EosChoices
    /\ IF dataset_kind = "MIDI"
       THEN /\ pre_tokenize \in BOOLEAN
            /\ one_token_stream \in BOOLEAN
            /\ midi_markers \in MarkerLists
            /\ midi_tokens \in MidiTokens(one_token_stream)
            /\ json_ids = <<>>
       ELSE /\ pre_tokenize = FALSE
            /\ one_token_stream = TRUE
            /\ midi_markers = <<>>
            /\ midi_tokens = <<>>
            /\ json_ids \in TokenLists
    /\ tokseq = <<>>
    /\ item_ids = <<>>
    /\ data_raised = "none"
    /\ data_pc = "ready"
    /\ LabelsIdle

\* tokseq = self._tokenize_midi(midi) of a DatasetMIDI
TokenizeMidi ==
    /\ dataset_kind = "MIDI"
    /\ data_pc = "ready"
    /\ LET r == tokenize_midi(midi_markers, midi_tokens, max_seq_len, bos_token_id,
                              eos_token_id, pre_tokenize, one_token_stream)
       IN  /\ tokseq' = r.tokseq
           /\ data_raised' = r.raised
           /\ data_pc' = IF r.raised = "none" THEN "tokenized" ELSE "failed"
    /\ UNCHANGED <<datasetVars, fileVars, item_ids, labelVars>>
    /\ UNCHANGED <<disabledVars, tokenizerVars, filterVars, vocabVars, streamVars, graphVars, saveVars>>

\* item = dataset[idx] of a DatasetJSON
GetItemJSON ==
    /\ dataset_kind = "JSON"
    /\ data_pc = "ready"
    /\ LET r == json_getitem(json_ids, max_seq_len, bos_token_id, eos_token_id)
       IN  /\ item_ids' = r.ids
           /\ data_raised' = r.raised
           /\ data_pc' = IF r.raised = "none" THEN "loaded" ELSE "failed"
    /\ UNCHANGED <<datasetVars, fileVars, tokseq, labelVars>>
    /\ UNCHANGED <<disabledVars, tokenizerVars, filterVars, vocabVars, streamVars, graphVars, saveVars>>

NextData == TokenizeMidi \/ GetItemJSON

SpecData == InitData /\ [][NextData]_vars

\* The chunk ids <<i, n>> that the tick-0 chunk markers of a file carry.
ChunkIdsAtTickZero(markers) ==
    {<<markers[p].text[2], markers[p].text[3]>> :
        p \in {q \in DOMAIN markers : /\ markers[q].time = 0
                                      /\ markers[q].text[1] = "miditok: chunk"}}

\* A returned id list starts with the BOS id / ends with the EOS id.  The ids
\* of a file are all at least FirstTokenId, so such a token was added.
StartsWithBos(ids) ==
    bos_token_id # None /\ ids # <<>> /\ ids[1] = bos_token_id

EndsWithEos(ids) ==
    eos_token_id # None /\ ids # <<>> /\ ids[Len(ids)] = eos_token_id

\* C9: when DatasetMIDI tokenizes a file whose tick-0 chunk marker is
\* "miditok: chunk i/n", a returned stream starts with BOS only if i = 0 and
\* ends with EOS only if i = n, for every stream of the file.
C9_ChunkBosEos ==
    (data_pc = "tokenized" /\ Cardinality(ChunkIdsAtTickZero(midi_markers)) = 1) =>
        \A c \in ChunkIdsAtTickZero(midi_markers) :
            \A p \in DOMAIN tokseq :
                /\ StartsWithBos(tokseq[p]) => c[1] = 0
                /\ EndsWithEos(tokseq[p]) => c[1] = c[2]

\* Two streams of a last chunk that is not the first: EOS added, BOS not.
C9_Witness ==
    /\ data_pc = "tokenized"
    /\ ChunkIdsAtTickZero(midi_markers) = {<<1, 1>>}
    /\ bos_token_id = 1
    /\ eos_token_id = 2
    /\ Len(tokseq) = 2
    /\ \A p \in DOMAIN tokseq : EndsWithEos(tokseq[p]) /\ ~StartsWithBos(tokseq[p])

\* The tokens of a returned list that come from the file.
Originals(ids) == SelectSeq(ids, LAMBDA t : t >= FirstTokenId)

\* `out` respects max_len for the input `inp` and the BOS/EOS ids handed to
\* _preprocess_token_ids: at most max_len tokens in all, and an input longer
\* than max_len minus the number of special ids is cut to that many tokens.
WithinMaxSeqLen(inp, out, max_len, bos, eos) ==
    LET room == max_len - NumSpecial(bos, eos)
    IN  room >= 0 =>
            /\ Len(out) <= max_len
            /\ Len(inp) > room => Originals(out) = SubSeq(inp, 1, room)

\* C10: what DatasetMIDI and DatasetJSON return after _preprocess_token_ids
\* has at most max_seq_len tokens, BOS/EOS included, and an input longer than
\* max_seq_len minus the number of provided special tokens is cut to exactly
\* that many of its tokens.
C10_WithinMaxSeqLen ==
    /\ data_pc = "loaded" =>
           WithinMaxSeqLen(json_ids, item_ids, max_seq_len, bos_token_id, eos_token_id)
    /\ data_pc = "tokenized" =>
           LET flags == MarkerLoop(midi_markers, TRUE, TRUE)
           IN  \A p \in DOMAIN tokseq :
                   WithinMaxSeqLen(midi_tokens[p], tokseq[p], max_seq_len,
                                   IF flags.add_bos THEN bos_token_id ELSE None,
                                   IF flags.add_eos THEN eos_token_id ELSE None)

(***************************************************************************)
(* SpecLabels: a DatasetMIDI over one file, with or without a label        *)
(* function, pre-tokenized at construction or tokenized on the fly.        *)
(***************************************************************************)

\* The label functions a dataset is built with: none, one that ignores the
\* token sequences it is handed, and REMICustom.func_to_get_labels.
LabelFuncs == {"none", "constant", "second_stream"}

\* The label of the function that ignores its arguments.
ConstantLabel == <<0>>

\* What tseq[1].ids can raise when tseq is one TokSequence and not a list:
\* the sequence has no member 1, or its member 1 has no attribute ids.
SingleSequenceErrors == {"IndexError", "AttributeError"}

\* self.func_to_get_labels(midi, tokseq, path): `is_list` tells whether
\* tokseq is a list of TokSequence (its id lists are `seqs`) or one
\* TokSequence; `err` is what indexing one TokSequence raises.
call_label_func(func, is_list, seqs, err) ==
    IF func = "constant" THEN [raised |-> "none", ids |-> ConstantLabel]
    ELSE IF is_list THEN func_to_get_labels(seqs)
    ELSE [raised |-> err, ids |-> <<>>]

\* The loop `for seq in tokseq` of DatasetMIDI.__init__: each id list is
\* appended to self.samples, which is None when no label function was given,
\* and the label function is called with the single seq.
RECURSIVE PreTokenizeLoop(_, _, _, _, _)
PreTokenizeLoop(seqs, func, smp, lbl, err) ==
    IF seqs = <<>> THEN [raised |-> "none", samples |-> smp, labels |-> lbl]
    ELSE IF func = "none"
    THEN [raised |-> "AttributeError", samples |-> smp, labels |-> lbl]
    ELSE LET smp1 == Append(smp, Head(seqs))
             r == call_label_func(func, FALSE, <<Head(seqs)>>, err)
         IN  IF r.raised # "none"
             THEN [raised |-> r.raised, samples |-> smp1, labels |-> lbl]
             ELSE PreTokenizeLoop(Tail(seqs), func, smp1, Append(lbl, r.ids), err)

\* A DatasetMIDI, its label function and its one file are drawn here.
InitLabels ==
    /\ config = {}
    /\ id_types = <<>>
    /\ remove_from_chord_seq = DefaultRemoveFromChordSeq
    /\ remove_from_instr_seq = DefaultRemoveFromInstrSeq
    /\ VocabBuilt
    /\ DisabledIdle
    /\ FilterIdle
    /\ StreamsIdle
    /\ GraphsIdle
    /\ SaveIdle
    /\ dataset_kind = "MIDI"
    /\ max_seq_len \in 0 .. MaxSeqLen
    /\ bos_token_id \in BosChoices
    /\ eos_token_id \in EosChoices
    /\ pre_tokenize \in BOOLEAN
    /\ one_token_stream \in BOOLEAN
    /\ midi_markers \in MarkerLists
    /\ midi_tokens \in MidiTokens(one_token_stream)
    /\ json_ids = <<>>
    /\ tokseq = <<>>
    /\ item_ids = <<>>
    /\ data_raised = "none"
    /\ data_pc = "ready"
    /\ label_func \in LabelFuncs
    /\ samples = <<>>
    /\ sample_labels = <<>>
    /\ item_labels = <<>>

\* The pre-tokenization of DatasetMIDI.__init__ for the file.
PreTokenize ==
    /\ dataset_kind = "MIDI"
    /\ pre_tokenize
    /\ data_pc = "ready"
    /\ \E err \in SingleSequenceErrors :
        LET t == tokenize_midi(midi_markers, midi_tokens, max_seq_len, bos_token_id,
                               eos_token_id, pre_tokenize, one_token_stream)
            r == IF t.raised # "none"
                 THEN [raised |-> t.raised, samples |-> <<>>, labels |-> <<>>]
                 ELSE PreTokenizeLoop(t.tokseq, label_func, <<>>, <<>>, err)
        IN  /\ tokseq' = t.tokseq
            /\ samples' = r.samples
            /\ sample_labels' = r.labels
            /\ data_raised' = r.raised
            /\ data_pc' = IF r.raised = "none" THEN "pretokenized" ELSE "failed"
    /\ UNCHANGED <<datasetVars, fileVars, item_ids, label_func, item_labels>>
    /\ UNCHANGED <<disabledVars, tokenizerVars, filterVars, vocabVars, streamVars, graphVars, saveVars>>

\* item = dataset[idx] of a DatasetMIDI: a pre-tokenized sample and its
\* label, or the file tokenized on the fly and the label function called
\* with what _tokenize_midi returned.  item_labels is <<>> for an item
\* without labels, else <<the label>>.
GetItemMIDI ==
    /\ dataset_kind = "MIDI"
    /\ IF pre_tokenize
       THEN /\ data_pc = "pretokenized"
            /\ \E idx \in DOMAIN samples :
                /\ item_ids' = samples[idx]
                /\ item_labels' = IF label_func # "none"
                                  THEN <<sample_labels[idx]>> ELSE <<>>
            /\ data_pc' = "item"
            /\ UNCHANGED <<tokseq, data_raised>>
       ELSE /\ data_pc = "ready"
            /\ \E err \in SingleSequenceErrors :
                LET t == tokenize_midi(midi_markers, midi_tokens, max_seq_len,
                                       bos_token_id, eos_token_id, pre_tokenize,
                                       one_token_stream)
                    l == IF t.raised # "none" \/ label_func = "none"
                         THEN [raised |-> t.raised, ids |-> <<>>]
                         ELSE call_label_func(label_func, ~one_token_stream,
                                              t.tokseq, err)
                IN  /\ tokseq' = t.tokseq
                    /\ data_raised' = l.raised
                    /\ data_pc' = IF l.raised = "none" THEN "item" ELSE "failed"
                    /\ item_ids' = IF l.raised = "none" THEN t.tokseq[1] ELSE <<>>
                    /\ item_labels' = IF l.raised = "none" /\ label_func # "none"
                                      THEN <<l.ids>> ELSE <<>>
    /\ UNCHANGED <<datasetVars, fileVars, label_func, samples, sample_labels>>
    /\ UNCHANGED <<disabledVars, tokenizerVars, filterVars, vocabVars, streamVars, graphVars, saveVars>>

NextLabels == PreTokenize \/ GetItemMIDI

SpecLabels == InitLabels /\ [][NextLabels]_vars

\* The id lists of all the streams of the file, as _tokenize_midi
\* preprocesses them when it keeps every stream.
AllStreams ==
    tokenize_midi(midi_markers, midi_tokens, max_seq_len, bos_token_id,
                  eos_token_id, TRUE, FALSE)

\* C11: when a DatasetMIDI over a two-stream tokenizer has the label function
\* that reads the second stream, and the file has at least two streams, the
\* call that produces the labels (__getitem__ on the fly, __init__ when
\* pre-tokenizing) does not fail and the labels are the ids of the second
\* stream of the file.
C11_LabelFuncGetsAllStreams ==
    (/\ dataset_kind = "MIDI"
     /\ ~one_token_stream
     /\ label_func = "second_stream"
     /\ Len(midi_tokens) >= 2
     /\ AllStreams.raised = "none"
     /\ data_pc \in {"item", "pretokenized", "failed"}) =>
        /\ data_raised = "none"
        /\ IF pre_tokenize
           THEN /\ sample_labels # <<>>
                /\ \A p \in DOMAIN sample_labels :
                       sample_labels[p] = AllStreams.tokseq[2]
           ELSE item_labels = <<AllStreams.tokseq[2]>>

(***************************************************************************)
(* SpecDisabled: the disabled indices of the two views of a REMICustom     *)
(* tokenizer with a base vocabulary and two exclusion lists.               *)
(***************************************************************************)

\* The order in which an exclusion list names its types.
TypeOrder == <<"Bar", "Chord", "Pitch", "Velocity">>

\* An exclusion list with the given members.
TypeList(token_types) == SelectSeq(TypeOrder, LAMBDA t : t \in token_types)

\* self.token_ids_of_type(t): the ids of the base vocabulary whose type is t,
\* in increasing order.
token_ids_of_type(types, t) ==
    SelectSeq([p \in 1 .. Len(types) |-> p - 1],
              LAMBDA id : token_id_type(types, id) = t)

\* sum([self.token_ids_of_type(t) for t in token_types], [])
RECURSIVE SumOfIdLists(_, _)
SumOfIdLists(types, token_types) ==
    IF token_types = <<>> THEN <<>>
    ELSE token_ids_of_type(types, Head(token_types))
             \o SumOfIdLists(types, Tail(token_types))

\* get_disabled_indices(token_types): its one statement evaluates the sum
\* above and drops it; the body has no return, so the call gives None.
get_disabled_indices(types, token_types) == NoneValue

\* A tokenizer with a base vocabulary and its two exclusion lists is drawn.
InitDisabled ==
    /\ config = {}
    /\ id_types \in SeqsUpTo(TokenTypes, MaxVocab)
    /\ remove_from_chord_seq \in SUBSET TokenTypes
    /\ remove_from_instr_seq \in SUBSET TokenTypes
    /\ VocabBuilt
    /\ DisabledIdle
    /\ FilterIdle
    /\ StreamsIdle
    /\ GraphsIdle
    /\ SaveIdle
    /\ DataIdle

\* get_disabled_instr_indices()
GetDisabledInstrIndices ==
    /\ disabled_indices' =
           get_disabled_indices(id_types, TypeList(remove_from_instr_seq))
    /\ disabled_pc' = "instr"
    /\ UNCHANGED <<tokenizerVars, filterVars, vocabVars, streamVars, graphVars,
                   saveVars, dataVars>>

\* get_disabled_chord_indices()
GetDisabledChordIndices ==
    /\ disabled_indices' =
           get_disabled_indices(id_types, TypeList(remove_from_chord_seq))
    /\ disabled_pc' = "chord"
    /\ UNCHANGED <<tokenizerVars, filterVars, vocabVars, streamVars, graphVars,
                   saveVars, dataVars>>

NextDisabled == GetDisabledInstrIndices \/ GetDisabledChordIndices

SpecDisabled == InitDisabled /\ [][NextDisabled]_vars

\* C12: get_disabled_instr_indices and get_disabled_chord_indices return the
\* list of the base-vocabulary ids whose type is in the view's exclusion
\* list: the concatenation of token_ids_of_type(t) over the list, which holds
\* exactly the ids the view's filtering removes.
C12_DisabledIndicesReturned ==
    /\ disabled_pc = "instr" =>
           disabled_indices =
               ListValue(SumOfIdLists(id_types, TypeList(remove_from_instr_seq)))
    /\ disabled_pc = "chord" =>
           disabled_indices =
               ListValue(SumOfIdLists(id_types, TypeList(remove_from_chord_seq)))

====
